---------------------------- MODULE Spec2Model ----------------------------
(***************************************************************************)
(* A model of crc2vice (src/crc2vice.go): the conversion of a CRC ARTCC's  *)
(* video maps (GeoJSON line strings) to vice's JSON format.                *)
(*                                                                         *)
(* Three specifications share the module:                                  *)
(*   Spec        one run of main(): arguments, the ARTCC definition, the   *)
(*               walk of VideoMaps/<base>, the two output files;           *)
(*   SpecExtract the decoding of one GeoJSON document and the extraction   *)
(*               of its line segments, over a bounded set of documents;    *)
(*   SpecCodec   Point2LL.MarshalJSON over a bounded set of float32 pairs. *)
(***************************************************************************)
EXTENDS Integers, Sequences, FiniteSets, TLC

VARIABLES
    pc,         \* main's position: "args", "config", "walk", "writeMaps", "writeInfo", "done", "exit"
    exitCode,   \* the process's exit status: -1 while running, 0 at the end of main, 1 from os.Exit(1)
    config,     \* what reading and decoding ARTCCs/<base>.json gave: "" before, then "ok", "unreadable" or "malformed"
    artcc,      \* artcc.VideoMaps, the decoded ARTCC definition
    mapSpecs,   \* main's mapSpecs
    idToName,   \* main's idToName
    videoMaps,  \* main's videoMaps
    walked,     \* the directory entries the walk has visited, in order, with what was read
    base,       \* main's base, os.Args[1]
    stdout,     \* the warnings printed on standard output (progress text left out)
    stderr,     \* the lines printed on standard error
    written,    \* the output files written so far: file name -> content
    ex,         \* SpecExtract: the document, its decoding and the extracted lines
    cd          \* SpecCodec: the point and its encoding

vars == <<pc, exitCode, config, artcc, mapSpecs, idToName, videoMaps, walked, base,
          stdout, stderr, written, ex, cd>>

mainVars == <<pc, exitCode, config, artcc, mapSpecs, idToName, videoMaps, walked, base,
              stdout, stderr, written>>

(***************************************************************************)
(* float32.  A value is sign * m * 2^e with 0 <= m <= 2^24; the pair is    *)
(* not kept normalised, the value is what counts.  Only the operations of  *)
(* Point2LL.MarshalJSON are modelled, with IEEE round-to-nearest-even on   *)
(* each multiplication (each float32 operation rounded on its own).        *)
(***************************************************************************)
F32(neg, m, e) == [neg |-> neg, m |-> m, e |-> e]

Pow2(n) == 2 ^ n

Mant == 24      \* a float32 significand holds 24 bits

\* A mutant of Gt0: v >= 0 for v > 0.
Gt0OrZero(v) == ~v.neg \/ v.m = 0

\* v > 0 and v < 0 of the code; both are false of 0 and of -0.
Gt0(v) == ~v.neg /\ v.m > 0
Lt0(v) == v.neg /\ v.m > 0

\* The least s with p div 2^s < 2^24.
RECURSIVE ShiftFor(_, _)
ShiftFor(p, s) == IF p \div Pow2(s) < Pow2(Mant) THEN s ELSE ShiftFor(p, s + 1)

\* p * 2^e (p >= 0) rounded to a float32: round to nearest, ties to even.
RoundF32(p, e) ==
    LET s    == ShiftFor(p, 0)
        q    == p \div Pow2(s)
        r    == p % Pow2(s)
        half == IF s = 0 THEN 0 ELSE Pow2(s - 1)
        up   == s > 0 /\ (r > half \/ (r = half /\ q % 2 = 1))
    IN  F32(FALSE, IF up THEN q + 1 ELSE q, e + s)

\* int(v): the integer part, truncated toward zero.
IntPart(v) ==
    LET n == IF v.e >= 0 THEN v.m * Pow2(v.e)
             ELSE IF -v.e > Mant THEN 0
             ELSE v.m \div Pow2(-v.e)
    IN  IF v.neg THEN -n ELSE n

\* v - floor(v) for v < 0 with v = -(m * 2^-n), n > 0: 2^n - (m mod 2^n) in
\* units of 2^-n where that fits a significand, and else 1 - |v| rounded to
\* the spacing 2^-24 of [1/2, 1], to nearest, ties to even.
NegFrac(m, n) ==
    IF n <= Mant
    THEN LET r == m % Pow2(n)
         IN  F32(FALSE, IF r = 0 THEN 0 ELSE Pow2(n) - r, -n)
    ELSE IF n - Mant > 30 THEN F32(FALSE, Pow2(Mant), -Mant)
    ELSE LET k    == n - Mant
             x    == m \div Pow2(k)
             r    == m % Pow2(k)
             half == Pow2(k - 1)
             down == r > half \/ (r = half /\ x % 2 = 1)
         IN  F32(FALSE, Pow2(Mant) - x - (IF down THEN 1 ELSE 0), -Mant)

\* v - floor(v): exact in float32 for v >= 0.
FracPart(v) ==
    IF v.e >= 0 \/ v.m = 0 THEN F32(FALSE, 0, 0)
    ELSE IF v.neg THEN NegFrac(v.m, -v.e)
    ELSE IF -v.e > Mant THEN F32(FALSE, v.m, v.e)
    ELSE F32(FALSE, v.m % Pow2(-v.e), v.e)

\* v * 60 and v * 1000 in float32 (60 = 15 * 2^2, 1000 = 125 * 2^3).
Mul60(v) == RoundF32(v.m * 15, v.e + 2)
Mul1000(v) == RoundF32(v.m * 125, v.e + 3)

abs(v) == IF Lt0(v) THEN F32(FALSE, v.m, v.e) ELSE v

(***************************************************************************)
(* fmt.Sprintf("%0<w>d", n): the decimal digits of n, zero-padded to w     *)
(* characters, a minus sign first (and counted in w) when n < 0.           *)
(***************************************************************************)
Digit(d) == CASE d = 0 -> "0" [] d = 1 -> "1" [] d = 2 -> "2" [] d = 3 -> "3"
              [] d = 4 -> "4" [] d = 5 -> "5" [] d = 6 -> "6" [] d = 7 -> "7"
              [] d = 8 -> "8" [] d = 9 -> "9"

RECURSIVE Digits(_)
Digits(n) == IF n < 10 THEN <<Digit(n)>> ELSE Digits(n \div 10) \o <<Digit(n % 10)>>

RECURSIVE ZeroPad(_, _)
ZeroPad(s, w) == IF Len(s) >= w THEN s ELSE ZeroPad(<<"0">> \o s, w)

Sprintf0d(w, n) ==
    IF n < 0 THEN <<"-">> \o ZeroPad(Digits(-n), w - 1) ELSE ZeroPad(Digits(n), w)

(***************************************************************************)
(* Point2LL.MarshalJSON.  A Point2LL is <<longitude, latitude>>; a string  *)
(* is the sequence of its characters.                                      *)
(***************************************************************************)
format(v0) ==
    LET v1 == Mul60(FracPart(v0))
        v2 == Mul60(FracPart(v1))
        v3 == Mul1000(FracPart(v2))
    IN  Sprintf0d(3, IntPart(v0)) \o <<".">> \o Sprintf0d(2, IntPart(v1))
          \o <<".">> \o Sprintf0d(2, IntPart(v2)) \o <<".">> \o Sprintf0d(3, IntPart(v3))

MarshalJSON(p) ==
    <<"\"">> \o (IF Gt0(p[2]) THEN <<"N">> ELSE <<"S">>) \o format(abs(p[2]))
      \o <<",">> \o (IF Gt0(p[1]) THEN <<"E">> ELSE <<"W">>) \o format(abs(p[1]))
      \o <<"\"">>


(***************************************************************************)
(* JSON values as encoding/json's decoder sees them.  A number carries the *)
(* float32 that strconv gives for its literal; an object is a function     *)
(* from its keys to their values.                                          *)
(***************************************************************************)
JNull == [k |-> "null"]
JNum(v) == [k |-> "num", n |-> v]
JStr(s) == [k |-> "str", s |-> s]
JArr(a) == [k |-> "arr", a |-> a]
JObj(o) == [k |-> "obj", o |-> o]

ZeroF32 == F32(FALSE, 0, 0)
ZeroPoint == <<ZeroF32, ZeroF32>>

\* A decoding's result: the value stored and whether an UnmarshalTypeError
\* was saved on the way (the decoder goes on after one, leaving the field
\* it could not store at its zero value).
Dec(v, bad) == [v |-> v, bad |-> bad]

\* json.Unmarshal into a float32, a string: null leaves the zero value.
DecodeFloat(j) ==
    CASE j.k = "num"  -> Dec(j.n, FALSE)
      [] j.k = "null" -> Dec(ZeroF32, FALSE)
      [] OTHER        -> Dec(ZeroF32, TRUE)

DecodeString(j) ==
    CASE j.k = "str"  -> Dec(j.s, FALSE)
      [] j.k = "null" -> Dec("", FALSE)
      [] OTHER        -> Dec("", TRUE)

\* A struct or an array of two decoded parts, and a slice of decoded
\* elements: a type error in a part is one of the whole.
Both(x, y, v) == Dec(v, x.bad \/ y.bad)
Each(ds) == Dec([i \in DOMAIN ds |-> ds[i].v], \E i \in DOMAIN ds : ds[i].bad)

\* json.Unmarshal into a Point2LL, a [2]float32: the first two elements of
\* a JSON array are decoded, missing ones are zero, further ones skipped.
ElementOrZero(a, i) == IF Len(a) >= i THEN DecodeFloat(a[i]) ELSE Dec(ZeroF32, FALSE)

MkPoint(x, y) == Both(x, y, <<x.v, y.v>>)

DecodePoint(j) ==
    CASE j.k = "arr"  -> MkPoint(ElementOrZero(j.a, 1), ElementOrZero(j.a, 2))
      [] j.k = "null" -> Dec(ZeroPoint, FALSE)
      [] OTHER        -> Dec(ZeroPoint, TRUE)

\* json.Unmarshal(d, &coords) with coords a []Point2LL.
DecodePoints(j) ==
    CASE j.k = "arr"  -> Each([i \in 1..Len(j.a) |-> DecodePoint(j.a[i])])
      [] j.k = "null" -> Dec(<<>>, FALSE)
      [] OTHER        -> Dec(<<>>, TRUE)

\* A mutant of OrNil: the error of the inner json.Unmarshal is returned.
OrNilOrError(r) == Dec(IF r.bad THEN <<>> ELSE r.v, r.bad)

\* GeoJSONCoordinates.UnmarshalJSON: the points when they decode, nil when
\* they do not, and never an error.
OrNil(r) == Dec(IF r.bad THEN <<>> ELSE r.v, FALSE)

CoordinatesUnmarshalJSON(j) == OrNil(DecodePoints(j))

Field(o, key) == IF key \in DOMAIN o THEN o[key] ELSE JNull

\* The struct Geometry of a GeoJSONFeature.  The Unmarshaler of Coordinates
\* runs for a key that is present, null included.
ZeroGeometry == [Type |-> "", Coordinates |-> <<>>]

MkGeometry(t, c) == Both(t, c, [Type |-> t.v, Coordinates |-> c.v])

DecodeGeometry(j) ==
    CASE j.k = "obj"  -> MkGeometry(DecodeString(Field(j.o, "type")),
                                    CoordinatesUnmarshalJSON(Field(j.o, "coordinates")))
      [] j.k = "null" -> Dec(ZeroGeometry, FALSE)
      [] OTHER        -> Dec(ZeroGeometry, TRUE)

ZeroFeature == [Type |-> "", Geometry |-> ZeroGeometry]

MkFeature(t, g) == Both(t, g, [Type |-> t.v, Geometry |-> g.v])

DecodeFeature(j) ==
    CASE j.k = "obj"  -> MkFeature(DecodeString(Field(j.o, "type")),
                                   DecodeGeometry(Field(j.o, "geometry")))
      [] j.k = "null" -> Dec(ZeroFeature, FALSE)
      [] OTHER        -> Dec(ZeroFeature, TRUE)

DecodeFeatures(j) ==
    CASE j.k = "arr"  -> Each([i \in 1..Len(j.a) |-> DecodeFeature(j.a[i])])
      [] j.k = "null" -> Dec(<<>>, FALSE)
      [] OTHER        -> Dec(<<>>, TRUE)

ZeroGeoJSON == [Type |-> "", Features |-> <<>>]

MkGeoJSON(t, f) == Both(t, f, [Type |-> t.v, Features |-> f.v])

DecodeGeoJSON(j) ==
    CASE j.k = "obj"  -> MkGeoJSON(DecodeString(Field(j.o, "type")),
                                   DecodeFeatures(Field(j.o, "features")))
      [] j.k = "null" -> Dec(ZeroGeoJSON, FALSE)
      [] OTHER        -> Dec(ZeroGeoJSON, TRUE)

(***************************************************************************)
(* A file's content: its bytes, of which only the line breaks count        *)
(* ("\n" or "x"), and what the decoder makes of them: a syntax error       *)
(* (syntax = TRUE) at offset off, or the value j, off then being the       *)
(* offset the decoder gives its first UnmarshalTypeError, if it has one.   *)
(***************************************************************************)
File(bytes, syntax, off, j) == [bytes |-> bytes, syntax |-> syntax, off |-> off, j |-> j]

\* decodeOffset of UnmarshalJSON: the line and the character of an offset.
RECURSIVE decodeOffset(_, _, _, _, _)
decodeOffset(b, offset, i, line, char) ==
    IF ~(i < offset /\ i < Len(b)) THEN [line |-> line, char |-> char]
    ELSE IF b[i + 1] = "\n" THEN decodeOffset(b, offset, i + 1, line + 1, 1)
    ELSE decodeOffset(b, offset, i + 1, line, char + 1)

\* UnmarshalJSON[GeoJSON]: json.Unmarshal checks the syntax of the whole
\* input before it stores anything, so a syntax error leaves gj untouched;
\* a type error leaves what did decode.  err is "" for nil, and at is the
\* line and character the error message carries.
NoPlace == [line |-> 0, char |-> 0]

Outcome(file, r) ==
    [gj  |-> r.v,
     err |-> IF r.bad THEN "type" ELSE "",
     at  |-> IF r.bad THEN decodeOffset(file.bytes, file.off, 0, 1, 1) ELSE NoPlace]

UnmarshalJSON(file) ==
    IF file.syntax
    THEN [gj |-> ZeroGeoJSON, err |-> "syntax",
          at |-> decodeOffset(file.bytes, file.off, 0, 1, 1)]
    ELSE Outcome(file, DecodeGeoJSON(file.j))

(***************************************************************************)
(* The extraction loop of main's callback: both end points of every        *)
(* segment of every LineString feature, in order.                          *)
(***************************************************************************)
\* A mutant of Segments: the points taken two by two, as if the list held
\* the pairs already.
RECURSIVE SegmentsByTwo(_, _)
SegmentsByTwo(c, i) ==
    IF i < Len(c) THEN <<c[i], c[i + 1]>> \o SegmentsByTwo(c, i + 2) ELSE <<>>

RECURSIVE Segments(_, _)
Segments(c, i) ==
    IF i < Len(c) THEN <<c[i], c[i + 1]>> \o Segments(c, i + 1) ELSE <<>>

Qualifies(f) == f.Type = "Feature" /\ f.Geometry.Type = "LineString"

RECURSIVE ExtractLines(_, _)
ExtractLines(features, n) ==
    IF n > Len(features) THEN <<>>
    ELSE (IF Qualifies(features[n]) THEN Segments(features[n].Geometry.Coordinates, 1)
          ELSE <<>>) \o ExtractLines(features, n + 1)


(***************************************************************************)
(* Bounds of the model.                                                    *)
(***************************************************************************)
MaxCatalog == 3     \* video maps in an ARTCC definition
MaxWalk == 2        \* directory entries visited below VideoMaps/<base>
MaxPts == 3         \* points of a line string
MaxFeatures == 2    \* features of a GeoJSON document

(***************************************************************************)
(* Inputs: points, documents, ARTCC definitions, the directory tree.       *)
(***************************************************************************)
\* The point (-(73.5 + i/2), 40.75 + i/2) as a pair of float32.
Pt(i) == <<F32(TRUE, 9633792 + i * 65536, -17), F32(FALSE, 10682368 + i * 131072, -18)>>

JPoint(p) == JArr(<<JNum(p[1]), JNum(p[2])>>)

\* The coordinates of a line string through Pt(from), ..., Pt(from + n - 1).
JLine(from, n) == JArr([i \in 1..n |-> JPoint(Pt(from + i - 1))])

JGeometry(type, coordinates) == JObj([type |-> JStr(type), coordinates |-> coordinates])
JFeature(geometry) == JObj([type |-> JStr("Feature"), geometry |-> geometry])
JCollection(features) == JObj([type |-> JStr("FeatureCollection"), features |-> JArr(features)])

\* Bytes of a two-line and of a one-line file.
TwoLines == <<"x", "x", "\n", "x", "x", "x">>
OneLine == <<"x", "x", "x", "x">>

GoodFile(features) == File(TwoLines, FALSE, 0, JCollection(features))

\* The documents the run reads: line strings, a polygon, nothing, a
\* document cut short (a syntax error), and one with a line string and a
\* feature whose type is a number (a type error after the line string).
PolygonFeature == JFeature(JGeometry("Polygon", JArr(<<JLine(0, 3)>>)))
TruncatedFile == File(TwoLines, TRUE, 5, JNull)
MistypedFile ==
    File(OneLine, FALSE, 3,
         JCollection(<<JFeature(JGeometry("LineString", JLine(1, 2))),
                       JObj([type |-> JNum(Pt(0)[1]), geometry |-> JNull])>>))

RunFiles ==
    {GoodFile(<<JFeature(JGeometry("LineString", JLine(0, n)))>>) : n \in {2, MaxPts}}
    \cup {GoodFile(<<PolygonFeature>>), TruncatedFile, MistypedFile}

\* ARTCC.VideoMaps entries.  An id and a file name are the sequences of
\* their dot-separated parts: "A.geojson" is <<"A", "geojson">>.
VideoMapSpec(id, name, shortName, category) ==
    [Id |-> id, Name |-> name, ShortName |-> shortName, Category |-> category, STARSId |-> 0]

VideoMapSpecs ==
    {VideoMapSpec(<<"A">>, "N1", "SA", "A"),
     VideoMapSpec(<<"B">>, "N1", "SB", "B"),
     VideoMapSpec(<<"B">>, "N2", "SB2", "A"),
     VideoMapSpec(<<"C">>, "N3", "", "")}

SeqsUpTo(S, n) == UNION {[1..k -> S] : k \in 0..n}

Catalogs == SeqsUpTo(VideoMapSpecs, MaxCatalog)

ArgLists == {<<"crc2vice">>, <<"crc2vice", "ZNY">>, <<"crc2vice", "ZNY", "ZBW">>}

\* The entries fs.WalkDir can meet, in the order it meets them (a
\* directory before its content, names in byte order), as paths relative
\* to the root; up is the index of the entry's directory.
Entry(rel, dir, up) == [rel |-> rel, dir |-> dir, up |-> up]

Tree ==
    <<Entry(<<>>, TRUE, 0),
      Entry(<< <<"A">> >>, TRUE, 1),
      Entry(<< <<"A">>, <<"A", "geojson">> >>, FALSE, 2),
      Entry(<< <<"A", "geojson">> >>, FALSE, 1),
      Entry(<< <<"B", "geojson">> >>, FALSE, 1),
      Entry(<< <<"C", "geojson">> >>, FALSE, 1),
      Entry(<< <<"D", "geojson">> >>, FALSE, 1)>>

(***************************************************************************)
(* path and strings helpers, on paths as sequences of elements.            *)
(***************************************************************************)
\* path.Join("VideoMaps", base) and the path WalkDir hands the callback.
Root(facility) == << <<"VideoMaps">>, <<facility>> >>
PathOf(facility, e) == Root(facility) \o e.rel

\* filepath.Base: the last element.
Base(path) == path[Len(path)]

\* filepath.Ext: from the last dot of the last element, "" without a dot.
Ext(path) ==
    LET b == Base(path) IN IF Len(b) >= 2 THEN <<".", b[Len(b)]>> ELSE <<>>

\* strings.CutSuffix(name, ".geojson"): name itself when it has no such suffix.
CutSuffix(name) ==
    IF Len(name) >= 2 /\ name[Len(name)] = "geojson"
    THEN SubSeq(name, 1, Len(name) - 1) ELSE name

\* strings.Contains(path, base), for a base that holds no dot or slash:
\* decided on whole parts of the path's elements.
Contains(path, facility) ==
    \E i \in 1..Len(path) : \E j \in 1..Len(path[i]) : path[i][j] = facility

\* m[k] = v on a Go map.
Put(m, k, v) == [x \in DOMAIN m \cup {k} |-> IF x = k THEN v ELSE m[x]]

EmptyMap == [x \in {} |-> <<>>]

(***************************************************************************)
(* main's loop over artcc.VideoMaps.                                       *)
(***************************************************************************)
\* A mutant of Group: group 1 for category "B" only.
GroupOneForB(m) == IF m.Category = "B" THEN 1 ELSE 0

Group(m) == IF m.Category = "A" THEN 0 ELSE 1

ViceMapSpec(m) == [Group |-> Group(m), Label |-> m.ShortName, Name |-> m.Name]

RECURSIVE BuildMapSpecs(_, _)
BuildMapSpecs(maps, n) ==
    IF n > Len(maps) THEN <<>> ELSE <<ViceMapSpec(maps[n])>> \o BuildMapSpecs(maps, n + 1)

RECURSIVE BuildIdToName(_, _, _)
BuildIdToName(maps, n, acc) ==
    IF n > Len(maps) THEN acc
    ELSE BuildIdToName(maps, n + 1, Put(acc, maps[n].Id, maps[n].Name))


(***************************************************************************)
(* Spec: one run of main().                                                *)
(***************************************************************************)
ExIdle ==
    [phase |-> "idle", file |-> TruncatedFile, r |-> UnmarshalJSON(TruncatedFile),
     lines |-> <<>>]

CdIdle == [phase |-> "idle", p |-> ZeroPoint, s |-> <<>>]

Init ==
    /\ pc = "args"
    /\ exitCode = -1
    /\ config = ""
    /\ artcc = <<>>
    /\ mapSpecs = <<>>
    /\ idToName = EmptyMap
    /\ videoMaps = EmptyMap
    /\ walked = <<>>
    /\ base = ""
    /\ stdout = <<>>
    /\ stderr = <<>>
    /\ written = EmptyMap
    /\ ex = ExIdle
    /\ cd = CdIdle

\* A mutant of Exit1: the line is printed and the process ends with status 0.
Exit0(msg) ==
    /\ stderr' = Append(stderr, msg)
    /\ pc' = "exit"
    /\ exitCode' = 0

\* errorExit with an error, and main's own os.Exit(1): a line on standard
\* error, exit status 1.
Exit1(msg) ==
    /\ stderr' = Append(stderr, msg)
    /\ pc' = "exit"
    /\ exitCode' = 1

\* main, lines 144-148: the argument check.
CheckArgs(args) ==
    /\ pc = "args"
    /\ IF Len(args) # 2
       THEN /\ Exit1(<<"crctovice: expected ARTCC name as program argument">>)
            /\ UNCHANGED base
       ELSE /\ base' = args[2]
            /\ pc' = "config"
            /\ UNCHANGED <<exitCode, stderr>>
    /\ UNCHANGED <<config, artcc, mapSpecs, idToName, videoMaps, walked, stdout, written,
                   ex, cd>>

\* main, lines 150-174: the ARTCC definition is read and decoded, and the
\* loop over its video maps builds mapSpecs and idToName.  status is what
\* os.ReadFile and json.Unmarshal make of ARTCCs/<base>.json.
ReadConfig(status, maps) ==
    /\ pc = "config"
    /\ config' = status
    /\ CASE status = "unreadable" ->
              /\ Exit1(<<"ARTCCs", base, "unable to read ARTCC definition">>)
              /\ UNCHANGED <<artcc, mapSpecs, idToName>>
         [] status = "malformed" ->
              /\ Exit1(<<"artccFile", "JSON error">>)
              /\ UNCHANGED <<artcc, mapSpecs, idToName>>
         [] OTHER ->
              /\ artcc' = maps
              /\ mapSpecs' = BuildMapSpecs(maps, 1)
              /\ idToName' = BuildIdToName(maps, 1, EmptyMap)
              /\ pc' = "walk"
              /\ UNCHANGED <<exitCode, stderr>>
    /\ UNCHANGED <<videoMaps, walked, base, stdout, written, ex, cd>>

\* What the walk has to have visited before it visits Tree[i]: nothing
\* later than it, and its directory.
MayVisit(i) ==
    /\ \A k \in 1..Len(walked) : walked[k].i < i
    /\ IF Tree[i].up = 0 THEN TRUE
       ELSE /\ \E k \in 1..Len(walked) : walked[k].i = Tree[i].up
            /\ Len(walked) <= MaxWalk

\* A mutant of NameFor: the extension of the path is not looked at.
NameForAnyExt(path, names, facility) ==
    IF ~Contains(path, facility) THEN <<>>
    ELSE LET fileid == CutSuffix(Base(path))
         IN  IF fileid \in DOMAIN names THEN <<names[fileid]>> ELSE <<>>

\* The callback's lookup of the map a path is for, lines 182-195: the
\* display name in a one-element sequence, or <<>> when the callback
\* returns without reading the file.
NameFor(path, names, facility) ==
    IF Ext(path) # <<".", "geojson">> THEN <<>>
    ELSE IF ~Contains(path, facility) THEN <<>>
    ELSE LET fileid == CutSuffix(Base(path))
         IN  IF fileid \in DOMAIN names THEN <<names[fileid]>> ELSE <<>>

\* A mutant of Defined: a map without points counts as not defined.
DefinedNonEmpty(maps, name) == name \in DOMAIN maps /\ maps[name] # <<>>

\* A mutant of Store: a map already defined keeps its points.
StoreFirst(maps, name, lines) == IF name \in DOMAIN maps THEN maps ELSE Put(maps, name, lines)

\* The callback's test for a map already defined, line 222, and its
\* assignment videoMaps[name] = lines, line 227.
Defined(maps, name) == name \in DOMAIN maps

Store(maps, name, lines) == Put(maps, name, lines)

\* The callback of fs.WalkDir, lines 177-230, called without an error for
\* Tree[i].  rd is what os.ReadFile gives when the callback gets that far:
\* <<>> for an error, the file in a one-element sequence otherwise.
Visit(i, rd) ==
    /\ pc = "walk"
    /\ MayVisit(i)
    /\ LET path == PathOf(base, Tree[i])
           name == NameFor(path, idToName, base)
       IN  IF name = <<>>
           THEN /\ rd = <<>>
                /\ walked' = Append(walked, [i |-> i, read |-> <<>>])
                /\ UNCHANGED <<pc, exitCode, videoMaps, stdout, stderr>>
           ELSE IF rd = <<>>
           THEN /\ Exit1(<<path, "unable to read file">>)
                /\ walked' = Append(walked, [i |-> i, read |-> <<>>])
                /\ UNCHANGED <<videoMaps, stdout>>
           ELSE LET r     == UnmarshalJSON(rd[1])
                    lines == ExtractLines(r.gj.Features, 1)
                IN  /\ stdout' = IF r.err # ""
                                 THEN Append(stdout, [path |-> path, err |-> r.err, at |-> r.at])
                                 ELSE stdout
                    /\ stderr' = IF Defined(videoMaps, name[1])
                                 THEN Append(stderr, <<name[1], "multiple definitions">>)
                                 ELSE stderr
                    /\ videoMaps' = Store(videoMaps, name[1], lines)
                    /\ walked' = Append(walked, [i |-> i, read |-> rd])
                    /\ UNCHANGED <<pc, exitCode>>
    /\ UNCHANGED <<config, artcc, mapSpecs, idToName, base, written, ex, cd>>

\* The callback called with an error, line 178: the root cannot be read,
\* or the directory just visited cannot be listed.
WalkError ==
    /\ pc = "walk"
    /\ IF walked = <<>> THEN TRUE ELSE Tree[walked[Len(walked)].i].dir
    /\ Exit1(<<"error walking VideoMaps directory">>)
    /\ UNCHANGED <<config, artcc, mapSpecs, idToName, videoMaps, walked, base, stdout,
                   written, ex, cd>>

\* fs.WalkDir returns, lines 231-232: nil, the callback returning no error.
WalkDone ==
    /\ pc = "walk"
    /\ walked # <<>>
    /\ pc' = "writeMaps"
    /\ UNCHANGED <<exitCode, config, artcc, mapSpecs, idToName, videoMaps, walked, base,
                   stdout, stderr, written, ex, cd>>

\* json's encoding of videoMaps: every point through Point2LL.MarshalJSON.
EncodeVideoMaps(maps) ==
    [n \in DOMAIN maps |-> [k \in 1..Len(maps[n]) |-> MarshalJSON(maps[n][k])]]

\* writeJSON(v, fn), lines 93-103; ok is whether os.WriteFile succeeds.
WriteJSON(content, fn, ok, next) ==
    IF ok
    THEN /\ written' = Put(written, fn, content)
         /\ pc' = next
         /\ exitCode' = IF next = "done" THEN 0 ELSE exitCode
         /\ UNCHANGED stderr
    ELSE /\ Exit1(<<"writing file">>)
         /\ UNCHANGED written

\* main, line 234.
WriteVideoMaps(ok) ==
    /\ pc = "writeMaps"
    /\ WriteJSON(EncodeVideoMaps(videoMaps), <<base, "-videomaps.json">>, ok, "writeInfo")
    /\ UNCHANGED <<config, artcc, mapSpecs, idToName, videoMaps, walked, base, stdout, ex, cd>>

\* main, lines 235-236: the info file, and the return from main.
WriteInfo(ok) ==
    /\ pc = "writeInfo"
    /\ WriteJSON(mapSpecs, <<base, ".info">>, ok, "done")
    /\ UNCHANGED <<config, artcc, mapSpecs, idToName, videoMaps, walked, base, stdout, ex, cd>>

ReadResults == {<<>>} \cup {<<f>> : f \in RunFiles}

Next ==
    \/ \E args \in ArgLists : CheckArgs(args)
    \/ \E status \in {"ok", "unreadable", "malformed"} :
         \E maps \in (IF status = "ok" THEN Catalogs ELSE {<<>>}) : ReadConfig(status, maps)
    \/ \E i \in 1..Len(Tree) : \E rd \in ReadResults : Visit(i, rd)
    \/ WalkError
    \/ WalkDone
    \/ \E ok \in BOOLEAN : WriteVideoMaps(ok)
    \/ \E ok \in BOOLEAN : WriteInfo(ok)

Spec == Init /\ [][Next]_vars


(***************************************************************************)
(* SpecExtract: UnmarshalJSON and the callback's extraction loop applied   *)
(* to one document out of a bounded set.                                   *)
(***************************************************************************)
MainIdle ==
    /\ pc = "idle"
    /\ exitCode = -1
    /\ config = ""
    /\ artcc = <<>>
    /\ mapSpecs = <<>>
    /\ idToName = EmptyMap
    /\ videoMaps = EmptyMap
    /\ walked = <<>>
    /\ base = ""
    /\ stdout = <<>>
    /\ stderr = <<>>
    /\ written = EmptyMap

\* Coordinates that are no line string's: a point's, a polygon's, null, a
\* string; and line strings with a position that is empty, null, of three
\* numbers, or that holds a string.
OddCoordinates ==
    {JPoint(Pt(0)),
     JArr(<<JLine(0, 3)>>),
     JNull,
     JStr("x"),
     JArr(<<JArr(<<>>), JPoint(Pt(1))>>),
     JArr(<<JNull, JPoint(Pt(1))>>),
     JArr(<<JArr(<<JNum(Pt(0)[1]), JNum(Pt(0)[2]), JNum(Pt(2)[2])>>), JPoint(Pt(1))>>),
     JArr(<<JPoint(Pt(0)), JArr(<<JStr("x"), JNum(Pt(1)[2])>>)>>)}

ExFeatures ==
    {JFeature(JGeometry("LineString", JLine(0, n))) : n \in 0..MaxPts}
    \cup {JFeature(JGeometry("LineString", JLine(2, 2)))}
    \cup {JFeature(JGeometry("LineString", c)) : c \in OddCoordinates}
    \cup {JFeature(JGeometry("Polygon", JArr(<<JLine(0, 3)>>))),
          JFeature(JGeometry("Polygon", JLine(0, 2))),
          JFeature(JGeometry("Point", JPoint(Pt(0)))),
          JFeature(JGeometry("MultiLineString", JArr(<<JLine(0, 2), JLine(1, 2)>>))),
          JObj([type |-> JStr("Other"), geometry |-> JGeometry("LineString", JLine(0, 2))]),
          JFeature(JNull),
          JFeature(JArr(<<>>)),
          JObj([type |-> JNum(Pt(0)[1]), geometry |-> JGeometry("LineString", JLine(0, 2))])}

ExFiles ==
    {GoodFile(fs) : fs \in SeqsUpTo(ExFeatures, MaxFeatures)}
    \cup {TruncatedFile,
          File(OneLine, FALSE, 2, JArr(<<>>)),
          File(OneLine, FALSE, 0, JNull),
          File(TwoLines, FALSE, 4, JObj([type |-> JStr("FeatureCollection"),
                                         features |-> JStr("none")]))}

InitExtract ==
    /\ MainIdle
    /\ cd = CdIdle
    /\ ex \in {[phase |-> "raw", file |-> f, r |-> UnmarshalJSON(TruncatedFile),
                lines |-> <<>>] : f \in ExFiles}

\* The callback, lines 200-201.
ExUnmarshal ==
    /\ ex.phase = "raw"
    /\ ex' = [ex EXCEPT !.phase = "decoded", !.r = UnmarshalJSON(ex.file)]
    /\ UNCHANGED <<mainVars, cd>>

\* The callback, lines 206-220.
ExExtract ==
    /\ ex.phase = "decoded"
    /\ ex' = [ex EXCEPT !.phase = "extracted", !.lines = ExtractLines(ex.r.gj.Features, 1)]
    /\ UNCHANGED <<mainVars, cd>>

NextExtract == ExUnmarshal \/ ExExtract

SpecExtract == InitExtract /\ [][NextExtract]_vars

(***************************************************************************)
(* SpecCodec: Point2LL.MarshalJSON applied to one point out of a bounded   *)
(* set: significands around those of float32(1.3) and float32(1.7), at     *)
(* the exponents of [128, 256) and below, both signs, and both zeros.      *)
(***************************************************************************)
MaxMantStep == 2    \* consecutive significands above each base
MaxExpDrop == 8     \* binades below [128, 256)

Significands == {b + k : b \in {10905190, 14260634}, k \in 0..MaxMantStep}

Float32s ==
    {F32(neg, m, -(16 + j)) : neg \in BOOLEAN, m \in Significands, j \in 0..MaxExpDrop}
    \cup {F32(FALSE, 0, 0), F32(TRUE, 0, 0)}

InitCodec ==
    /\ MainIdle
    /\ ex = ExIdle
    /\ cd \in {[phase |-> "input", p |-> <<lon, lat>>, s |-> <<>>] :
                 lon \in Float32s, lat \in Float32s}

MarshalPoint ==
    /\ cd.phase = "input"
    /\ cd' = [cd EXCEPT !.phase = "encoded", !.s = MarshalJSON(cd.p)]
    /\ UNCHANGED <<mainVars, ex>>

NextCodec == MarshalPoint

SpecCodec == InitCodec /\ [][NextCodec]_vars


(***************************************************************************)
(* Reading an encoded point back: the two fields between the hemisphere    *)
(* letters, their dot-separated numbers, and the exact value of a float32  *)
(* in thousandths of an arc second.                                        *)
(***************************************************************************)
IndexOf(s, ch) == CHOOSE i \in 1..Len(s) : s[i] = ch /\ \A j \in 1..(i - 1) : s[j] # ch

LatField(s) == SubSeq(s, 3, IndexOf(s, ",") - 1)
LonField(s) == SubSeq(s, IndexOf(s, ",") + 2, Len(s) - 1)

DigitChars == {"0", "1", "2", "3", "4", "5", "6", "7", "8", "9"}

DigitVal(c) == CHOOSE d \in 0..9 : Digit(d) = c

RECURSIVE ToNat(_)
ToNat(ds) ==
    IF ds = <<>> THEN 0 ELSE 10 * ToNat(SubSeq(ds, 1, Len(ds) - 1)) + DigitVal(ds[Len(ds)])

\* The numbers of a field, split at its dots.
RECURSIVE Numbers(_)
Numbers(f) ==
    IF \A i \in 1..Len(f) : f[i] # "." THEN <<ToNat(f)>>
    ELSE LET d == IndexOf(f, ".")
         IN  <<ToNat(SubSeq(f, 1, d - 1))>> \o Numbers(SubSeq(f, d + 1, Len(f)))

\* degrees + minutes/60 + seconds/3600 + fraction/3600000, times 3600000.
Decoded(n) == n[1] * 3600000 + n[2] * 60000 + n[3] * 1000 + n[4]

\* floor(|v| * 3600000) for |v| < 256, exactly: 3600000 = 28125 * 2^7, and
\* the significand is split in two so that no product passes 2^31.
FloorMas(v) ==
    LET hi == (v.m \div 4096) * 28125
        lo == (v.m % 4096) * 28125
        k  == -v.e - 7
    IN  IF v.m = 0 THEN 0
        ELSE IF k <= 12 THEN hi * Pow2(12 - k) + lo \div Pow2(k)
        ELSE IF k - 12 > 30 THEN 0
        ELSE (hi + lo \div 4096) \div Pow2(k - 12)

\* |v| <= 180.
InDegrees(v) == v.m = 0 \/ v.e < -16 \/ (v.e = -16 /\ v.m <= 11796480)

Positive(v) == v.m > 0 /\ ~v.neg

OnlyDigitsAndDots(f) == \A i \in 1..Len(f) : f[i] \in DigitChars \cup {"."}

Mirror(p) == <<[p[1] EXCEPT !.neg = ~p[1].neg], [p[2] EXCEPT !.neg = ~p[2].neg]>>

(***************************************************************************)
(* C8.  The encoding of a point starts with "N for a positive latitude     *)
(* and with "S otherwise (negative or zero); its longitude part starts     *)
(* with E for a positive longitude and with W otherwise.  What follows     *)
(* each letter is digits and dots only, and is the same for the point      *)
(* mirrored through the origin: the letter alone carries the sign.         *)
(***************************************************************************)
C8_HemisphereSelection ==
    cd.phase = "encoded" =>
        LET s == cd.s
            c == IndexOf(s, ",")
        IN  /\ s[1] = "\""
            /\ s[2] = (IF Positive(cd.p[2]) THEN "N" ELSE "S")
            /\ s[c + 1] = (IF Positive(cd.p[1]) THEN "E" ELSE "W")
            /\ OnlyDigitsAndDots(LatField(s))
            /\ OnlyDigitsAndDots(LonField(s))
            /\ LatField(MarshalJSON(Mirror(cd.p))) = LatField(s)
            /\ LonField(MarshalJSON(Mirror(cd.p))) = LonField(s)

\* A point on the equator, east of Greenwich, has been encoded: S and E.
C8_Witness ==
    /\ cd.phase = "encoded"
    /\ cd.p[2].m = 0
    /\ Positive(cd.p[1])
    /\ cd.s[2] = "S"
    /\ cd.s[IndexOf(cd.s, ",") + 1] = "E"

(***************************************************************************)
(* C9.  For a coordinate d of at most 180 degrees, the encoded field read  *)
(* back as degrees + minutes/60 + seconds/3600 + fraction/3600000 is a     *)
(* value v with 0 <= |d| - v < 1/3600000, and minutes and seconds are in   *)
(* 0..59 and the fraction in 0..999.  With t = 3600000 v, an integer,      *)
(* that is t <= 3600000 |d| < t + 1: t is the floor of 3600000 |d|.        *)
(***************************************************************************)
RoundTrips(v, field) ==
    LET n == Numbers(field)
        t == Decoded(n)
    IN  /\ Len(n) = 4
        /\ t <= FloorMas(v)
        /\ FloorMas(v) < t + 1
        /\ n[2] \in 0..59
        /\ n[3] \in 0..59
        /\ n[4] \in 0..999

C9_RoundTripTruncationOnly ==
    cd.phase = "encoded" =>
        /\ InDegrees(cd.p[1]) => RoundTrips(cd.p[1], LonField(cd.s))
        /\ InDegrees(cd.p[2]) => RoundTrips(cd.p[2], LatField(cd.s))


(***************************************************************************)
(* C1.  The extracted sequence is the concatenation, in feature order, of  *)
(* the pairs (c[i], c[i+1]) of every feature of type "Feature" with a      *)
(* geometry of type "LineString": a line string of n >= 2 points gives     *)
(* 2(n-1) points, one of fewer gives none, and the length is even.         *)
(***************************************************************************)
IsLineFeature(f) == f.Type = "Feature" /\ f.Geometry.Type = "LineString"

PairCount(c) == IF Len(c) >= 2 THEN Len(c) - 1 ELSE 0

\* The points emitted for the features before the j-th.
RECURSIVE PointsBefore(_, _)
PointsBefore(fs, j) ==
    IF j <= 1 THEN 0
    ELSE PointsBefore(fs, j - 1)
           + (IF IsLineFeature(fs[j - 1]) THEN 2 * PairCount(fs[j - 1].Geometry.Coordinates)
              ELSE 0)

C1_FlattenedSegments ==
    ex.phase = "extracted" =>
        LET fs  == ex.r.gj.Features
            out == ex.lines
        IN  /\ Len(out) = PointsBefore(fs, Len(fs) + 1)
            /\ Len(out) % 2 = 0
            /\ \A j \in 1..Len(fs) :
                 IsLineFeature(fs[j]) =>
                   \A i \in 1..PairCount(fs[j].Geometry.Coordinates) :
                     /\ out[PointsBefore(fs, j) + 2 * i - 1] = fs[j].Geometry.Coordinates[i]
                     /\ out[PointsBefore(fs, j) + 2 * i] = fs[j].Geometry.Coordinates[i + 1]
            /\ (Len(fs) = 1 /\ IsLineFeature(fs[1])) =>
                 Len(out) = (IF Len(fs[1].Geometry.Coordinates) >= 2
                             THEN 2 * (Len(fs[1].Geometry.Coordinates) - 1) ELSE 0)

\* Two line strings, of three and of two points, have been extracted: six points.
C1_Witness ==
    /\ ex.phase = "extracted"
    /\ Len(ex.r.gj.Features) = 2
    /\ IsLineFeature(ex.r.gj.Features[1])
    /\ IsLineFeature(ex.r.gj.Features[2])
    /\ Len(ex.r.gj.Features[1].Geometry.Coordinates) = 3
    /\ Len(ex.r.gj.Features[2].Geometry.Coordinates) = 2
    /\ Len(ex.lines) = 6

(***************************************************************************)
(* C5.  A document, sound otherwise, all of whose features are of another  *)
(* geometry kind than LineString, or have coordinates that are not a flat  *)
(* sequence of points, decodes without an error and yields no point.       *)
(***************************************************************************)
IsStr(j) == j.k = "str"

\* The document decodes but for what its coordinates may hold: an object
\* with a features array of objects, each with a geometry object, and
\* strings for the types.
SoundDocument(file) ==
    /\ ~file.syntax
    /\ file.j.k = "obj"
    /\ IsStr(Field(file.j.o, "type"))
    /\ Field(file.j.o, "features").k = "arr"
    /\ \A i \in 1..Len(Field(file.j.o, "features").a) :
         LET f == Field(file.j.o, "features").a[i]
         IN  /\ f.k = "obj"
             /\ IsStr(Field(f.o, "type"))
             /\ Field(f.o, "geometry").k = "obj"
             /\ IsStr(Field(Field(f.o, "geometry").o, "type"))

RawFeatures(file) == Field(file.j.o, "features").a
RawKind(f) == Field(Field(f.o, "geometry").o, "type").s
RawCoordinates(f) == Field(Field(f.o, "geometry").o, "coordinates")

\* An array of points, a point being an array of two numbers or more.
FlatPointSequence(c) ==
    /\ c.k = "arr"
    /\ \A i \in 1..Len(c.a) :
         /\ c.a[i].k = "arr"
         /\ Len(c.a[i].a) >= 2
         /\ \A t \in 1..Len(c.a[i].a) : c.a[i].a[t].k = "num"

\* The claim as it stands.
C5_NonLineIgnored ==
    (/\ ex.phase = "extracted"
     /\ SoundDocument(ex.file)
     /\ \A i \in 1..Len(RawFeatures(ex.file)) :
          \/ RawKind(RawFeatures(ex.file)[i]) # "LineString"
          \/ ~FlatPointSequence(RawCoordinates(RawFeatures(ex.file)[i])))
    => (ex.r.err = "" /\ ex.lines = <<>>)

\* Coordinates the decoder cannot store as a []Point2LL: not an array, an
\* element that is no array, or a first or second component of an element
\* that is no number.  null is no mismatch, nor is a missing component.
Rejected(c) ==
    \/ c.k \notin {"arr", "null"}
    \/ /\ c.k = "arr"
       /\ \E i \in 1..Len(c.a) :
            \/ c.a[i].k \notin {"arr", "null"}
            \/ /\ c.a[i].k = "arr"
               /\ \E t \in 1..Len(c.a[i].a) : t <= 2 /\ c.a[i].a[t].k \notin {"num", "null"}

\* The claim amended: the coordinates are null (or missing) or rejected.
C5_NonLineIgnoredAmended ==
    (/\ ex.phase = "extracted"
     /\ SoundDocument(ex.file)
     /\ \A i \in 1..Len(RawFeatures(ex.file)) :
          \/ RawKind(RawFeatures(ex.file)[i]) # "LineString"
          \/ RawCoordinates(RawFeatures(ex.file)[i]).k = "null"
          \/ Rejected(RawCoordinates(RawFeatures(ex.file)[i])))
    => (ex.r.err = "" /\ ex.lines = <<>>)

\* A polygon and a "LineString" with a point's coordinates have been
\* through decoding and extraction: no error, no point.
C5_Witness ==
    /\ ex.phase = "extracted"
    /\ SoundDocument(ex.file)
    /\ Len(RawFeatures(ex.file)) = 2
    /\ RawKind(RawFeatures(ex.file)[1]) = "Polygon"
    /\ RawCoordinates(RawFeatures(ex.file)[1]) = JArr(<<JLine(0, 3)>>)
    /\ RawKind(RawFeatures(ex.file)[2]) = "LineString"
    /\ RawCoordinates(RawFeatures(ex.file)[2]) = JPoint(Pt(0))
    /\ ex.r.err = ""
    /\ ex.lines = <<>>


(***************************************************************************)
(* The run's claims are stated on the record of the walk: walked holds,   *)
(* in order, the entries the callback was called for and what it read.     *)
(***************************************************************************)
CatalogIds == {artcc[i].Id : i \in 1..Len(artcc)}
CatalogNames == {artcc[i].Name : i \in 1..Len(artcc)}

Max(S) == CHOOSE x \in S : \A y \in S : y <= x

\* The display name of an identifier: that of its last catalog entry.
LastNameOf(id) == artcc[Max({i \in 1..Len(artcc) : artcc[i].Id = id})].Name

\* The file name of the k-th entry of the walk w.
FileNameOf(w, k) == Base(PathOf(base, Tree[w[k].i]))

\* The k-th entry of the walk w is a geometry source read for the name n.
IsSourceFor(w, k, n) ==
    /\ w[k].read # <<>>
    /\ \E id \in CatalogIds : LastNameOf(id) = n /\ FileNameOf(w, k) = id \o <<"geojson">>

SourcesOf(n) == {k \in 1..Len(walked) : IsSourceFor(walked, k, n)}

WellFormed(w, k) == UnmarshalJSON(w[k].read[1]).err = ""

\* The segment sequence of the k-th entry of the walk w.
SegmentsOfSource(w, k) == ExtractLines(UnmarshalJSON(w[k].read[1]).gj.Features, 1)

EncodedSegments(w, k) ==
    [i \in 1..Len(SegmentsOfSource(w, k)) |-> MarshalJSON(SegmentsOfSource(w, k)[i])]

Count(seq, x) == Cardinality({i \in 1..Len(seq) : seq[i] = x})

VideoMapsFile == <<base, "-videomaps.json">>
InfoFile == <<base, ".info">>

(***************************************************************************)
(* C2.  When two sources or more of one run resolve to one display name,   *)
(* the aggregate holds one entry for it, with the segments of the source   *)
(* processed last; each source after the first has given one "multiple     *)
(* definitions" warning; the warning ends no run, and a run that gets to   *)
(* its end has written both files, the last source's segments in the       *)
(* first, with exit status 0.                                              *)
(***************************************************************************)
C2_DuplicateLastWins ==
    \A n \in CatalogNames :
        Cardinality(SourcesOf(n)) >= 2 =>
            /\ n \in DOMAIN videoMaps
            /\ videoMaps[n] = SegmentsOfSource(walked, Max(SourcesOf(n)))
            /\ Count(stderr, <<n, "multiple definitions">>) = Cardinality(SourcesOf(n)) - 1
            /\ pc = "exit" => stderr[Len(stderr)] # <<n, "multiple definitions">>
            /\ pc \in {"walk", "writeMaps", "writeInfo"} => exitCode = -1
            /\ pc = "done" =>
                 /\ exitCode = 0
                 /\ DOMAIN written = {VideoMapsFile, InfoFile}
                 /\ n \in DOMAIN written[VideoMapsFile]
                 /\ written[VideoMapsFile][n] = EncodedSegments(walked, Max(SourcesOf(n)))

\* A run has ended after two sources of different segments for one name.
C2_Witness ==
    /\ pc = "done"
    /\ exitCode = 0
    /\ \E n \in CatalogNames :
         /\ Cardinality(SourcesOf(n)) = 2
         /\ \E k \in SourcesOf(n) :
              /\ k # Max(SourcesOf(n))
              /\ SegmentsOfSource(walked, k) # SegmentsOfSource(walked, Max(SourcesOf(n)))
              /\ SegmentsOfSource(walked, k) # <<>>
         /\ videoMaps[n] = SegmentsOfSource(walked, Max(SourcesOf(n)))
         /\ Count(stderr, <<n, "multiple definitions">>) = 1

(***************************************************************************)
(* C3.  During and after the scan the keys of the aggregate are the        *)
(* display names of the catalog identifiers id for which a file            *)
(* "<id>.geojson" was met; no error comes of an identifier without a file  *)
(* or of a file without an identifier.                                     *)
(***************************************************************************)
FoundIds ==
    {id \in CatalogIds :
        \E k \in 1..Len(walked) : FileNameOf(walked, k) = id \o <<"geojson">>}

C3_ScanMembership ==
    pc \in {"walk", "writeMaps", "writeInfo", "done"} =>
        /\ DOMAIN videoMaps = {LastNameOf(id) : id \in FoundIds}
        /\ exitCode # 1

\* The catalog {A, B, C}, with A.geojson and C.geojson only.
C3_Witness ==
    /\ pc = "done"
    /\ [i \in 1..Len(artcc) |-> artcc[i].Id] = << <<"A">>, <<"B">>, <<"C">> >>
    /\ [i \in 1..Len(artcc) |-> artcc[i].Name] = <<"N1", "N2", "N3">>
    /\ {FileNameOf(walked, k) : k \in 2..Len(walked)}
         = {<<"A", "geojson">>, <<"C", "geojson">>}
    /\ DOMAIN videoMaps = {"N1", "N3"}

(***************************************************************************)
(* C4.  An ARTCC definition that cannot be read or is no JSON ends the run *)
(* with status 1, no geometry document processed and no file written.      *)
(***************************************************************************)
C4_FatalConfigError ==
    config \in {"unreadable", "malformed"} =>
        /\ pc = "exit"
        /\ exitCode = 1
        /\ walked = <<>>
        /\ videoMaps = EmptyMap
        /\ stdout = <<>>
        /\ DOMAIN written = {}

C4_Witness ==
    /\ config = "malformed"
    /\ pc = "exit"
    /\ exitCode = 1
    /\ base = "ZNY"

(***************************************************************************)
(* C6.  A geometry document that fails to decode gives a warning and is    *)
(* skipped: the aggregate is what the documents that decode make it.       *)
(***************************************************************************)
WellFormedSourcesOf(n) == {k \in SourcesOf(n) : WellFormed(walked, k)}

C6_MalformedSkipped ==
    pc \in {"walk", "writeMaps", "writeInfo", "done"} =>
        \A n \in CatalogNames :
            IF WellFormedSourcesOf(n) = {}
            THEN n \notin DOMAIN videoMaps
            ELSE /\ n \in DOMAIN videoMaps
                 /\ videoMaps[n] = SegmentsOfSource(walked, Max(WellFormedSourcesOf(n)))

(***************************************************************************)
(* C7.  The list written to "<facility>.info" has one entry for each       *)
(* catalog entry, in the catalog's order: group 0 for category "A" and 1   *)
(* for another, the short name as label, the name as name.  It is a        *)
(* function of the catalog alone.                                          *)
(***************************************************************************)
InfoList ==
    [i \in 1..Len(artcc) |->
        [Group |-> IF artcc[i].Category = "A" THEN 0 ELSE 1,
         Label |-> artcc[i].ShortName,
         Name  |-> artcc[i].Name]]

C7_InfoFromCatalog ==
    /\ pc \in {"walk", "writeMaps", "writeInfo", "done"} => mapSpecs = InfoList
    /\ InfoFile \in DOMAIN written => written[InfoFile] = InfoList
    /\ pc = "done" => InfoFile \in DOMAIN written

\* The list has been written for a catalog of the categories "A", "B" and
\* "", one map of which has no entry in the aggregate and one a document
\* that did not decode.
C7_Witness ==
    /\ pc = "done"
    /\ InfoFile \in DOMAIN written
    /\ {artcc[i].Category : i \in 1..Len(artcc)} = {"A", "B", ""}
    /\ \E i \in 1..Len(artcc) : artcc[i].Name \notin DOMAIN videoMaps
    /\ \E k \in 1..Len(walked) : walked[k].read # <<>> /\ ~WellFormed(walked, k)
    /\ Len(written[InfoFile]) = 3

(***************************************************************************)
(* C10.  An entry of the aggregate, once inserted, is never changed.       *)
(***************************************************************************)
C10_WriteOnce ==
    [][\A n \in DOMAIN videoMaps : n \in DOMAIN videoMaps' /\ videoMaps'[n] = videoMaps[n]]_vars

\* The claim amended: an entry is never removed, and it changes only in the
\* step that processes a later source of the same name, which puts that
\* source's segments in its place and warns of "multiple definitions".
C10_ChangedOnlyByDuplicate ==
    [][\A n \in DOMAIN videoMaps :
          /\ n \in DOMAIN videoMaps'
          /\ videoMaps'[n] # videoMaps[n] =>
               /\ walked' # walked
               /\ SubSeq(walked', 1, Len(walked)) = walked
               /\ Len(walked') = Len(walked) + 1
               /\ IsSourceFor(walked', Len(walked'), n)
               /\ videoMaps'[n] = SegmentsOfSource(walked', Len(walked'))
               /\ stderr' = Append(stderr, <<n, "multiple definitions">>)]_vars

\* An entry has been replaced during the walk: two sources of one name,
\* the first without a point and the second with points.
C10_Witness ==
    /\ pc = "walk"
    /\ \E n \in DOMAIN videoMaps :
         /\ Cardinality(SourcesOf(n)) = 2
         /\ \E k \in SourcesOf(n) :
              /\ k # Max(SourcesOf(n))
              /\ SegmentsOfSource(walked, k) = <<>>
         /\ videoMaps[n] # <<>>
         /\ stderr = << <<n, "multiple definitions">> >>

=============================================================================
